---- MODULE Spec2Model ----
(***************************************************************************)
(* A model of euler.go (package mathlib): the Euler container, its         *)
(* setters, which all funnel through Set, and the matrix decomposition of  *)
(* SetFromRotationMatrix.                                                  *)
(*                                                                         *)
(* float64 values are modelled as terms:                                   *)
(*   <<"lit", k>>      the angle number k of a grid of twelve angles whose *)
(*                     sine and cosine are rational (fifths): k counts the *)
(*                     grid points anticlockwise from angle 0, so k = 3 is *)
(*                     pi/2 and k = 6 is pi; <<"lit", 0>> is the float 0.  *)
(*   <<"asin", v>>     math.Asin(v)                                        *)
(*   <<"atan2", a, b>> math.Atan2(a, b)                                    *)
(* Matrix entries are fixed-point integers: the entry 1.0 is Unit.         *)
(***************************************************************************)
EXTENDS Integers, Sequences, FiniteSets, TLC

VARIABLES e, notified, seen, last, status, ops

vars == <<e, notified, seen, last, status, ops>>

----------------------------------------------------------------------------
(* Bounds of the model *)

\* the number of operations applied in one behaviour of Spec
MaxOps == 2

\* grid angles -MaxAngle .. MaxAngle are used to build rotation matrices
MaxAngle == 6

----------------------------------------------------------------------------
(* euler.go, lines 6-19: the orders *)

EulerOrderXYZ == 0
EulerOrderYXZ == 1
EulerOrderZXY == 2
EulerOrderZYX == 3
EulerOrderYZX == 4
EulerOrderXZY == 5
numEulerOrders == 6

EulerOrderDefault == EulerOrderXYZ

----------------------------------------------------------------------------
(* float64 terms *)

Lit(k) == <<"lit", k>>

Asin(v) == <<"asin", v>>

Atan2(a, b) == <<"atan2", a, b>>

\* epsilon := 0.99999 is EpsilonNum / EpsilonDen
EpsilonNum == 99999
EpsilonDen == 100000

\* the fixed-point scale of a matrix entry: a product of three sines or
\* cosines, each a number of fifths, in units of 1/EpsilonDen
Unit == 5 * 5 * 5 * EpsilonDen

epsilon == 5 * 5 * 5 * EpsilonNum

Abs(v) == IF v < 0 THEN -v ELSE v

\* Clamp(v, lo, hi): v when lo <= v <= hi, else the nearest bound
Clamp(v, lo, hi) == IF v < lo THEN lo ELSE IF v > hi THEN hi ELSE v

----------------------------------------------------------------------------
(* The containers *)

Ids == {1, 2}

\* OnChangeCallback is eulerNoop after NewEuler and nil in a zero value
eulerNoop == "eulerNoop"
NilFunc == "nil"

NewEuler(x, y, z, order) ==
    [X |-> x, Y |-> y, Z |-> z, Order |-> order, OnChangeCallback |-> eulerNoop]

\* &Euler{}: the zero value
ZeroEuler ==
    [X |-> Lit(0), Y |-> Lit(0), Z |-> Lit(0), Order |-> 0,
     OnChangeCallback |-> NilFunc]

\* what an observer reads of the container it is handed
Fields(c) == <<c.X, c.Y, c.Z, c.Order>>

XYZ(c) == <<c.X, c.Y, c.Z>>

XY(c) == <<c.X, c.Y>>

----------------------------------------------------------------------------
(* Matrix4.Values: sixteen entries, indexed 0..15 *)

\* a bug: m12 read from the index of m21
M12Transposed(m) == m[1]

\* lines 102-107: the nine entries SetFromRotationMatrix reads
M11(m) == m[0]
M12(m) == m[4]
M13(m) == m[8]
M21(m) == m[1]
M22(m) == m[5]
M23(m) == m[9]
M31(m) == m[2]
M32(m) == m[6]
M33(m) == m[10]

\* a bug: the threshold itself counted as non-singular
NonSingularInclusive(v) == Abs(v) <= epsilon

\* lines 116, 125, 134, 143, 152, 163: math.Abs(entry) < epsilon
NonSingular(v) == Abs(v) < epsilon

\* lines 109-169: x, y, z as the switch on e.Order computes them
DecomposeYXZ(m) ==
    IF NonSingular(M23(m))
    THEN <<Asin(-Clamp(M23(m), -Unit, Unit)),
           Atan2(M13(m), M33(m)),
           Atan2(M21(m), M22(m))>>
    ELSE <<Asin(-Clamp(M23(m), -Unit, Unit)),
           Atan2(-M31(m), M11(m)),
           Lit(0)>>

DecomposeZXY(m) ==
    IF NonSingular(M32(m))
    THEN <<Asin(Clamp(M32(m), -Unit, Unit)),
           Atan2(-M31(m), M33(m)),
           Atan2(-M12(m), M22(m))>>
    ELSE <<Asin(Clamp(M32(m), -Unit, Unit)),
           Lit(0),
           Atan2(M21(m), M11(m))>>

DecomposeZYX(m) ==
    IF NonSingular(M31(m))
    THEN <<Atan2(M32(m), M33(m)),
           Asin(-Clamp(M31(m), -Unit, Unit)),
           Atan2(M21(m), M11(m))>>
    ELSE <<Lit(0),
           Asin(-Clamp(M31(m), -Unit, Unit)),
           Atan2(-M12(m), M22(m))>>

DecomposeYZX(m) ==
    IF NonSingular(M21(m))
    THEN <<Atan2(-M23(m), M22(m)),
           Atan2(-M31(m), M11(m)),
           Asin(Clamp(M21(m), -Unit, Unit))>>
    ELSE <<Lit(0),
           Atan2(M13(m), M33(m)),
           Asin(Clamp(M21(m), -Unit, Unit))>>

DecomposeXZY(m) ==
    IF NonSingular(M12(m))
    THEN <<Atan2(M32(m), M22(m)),
           Atan2(M13(m), M11(m)),
           Asin(-Clamp(M12(m), -Unit, Unit))>>
    ELSE <<Atan2(-M23(m), M33(m)),
           Lit(0),
           Asin(-Clamp(M12(m), -Unit, Unit))>>

DecomposeXYZ(m) ==
    IF NonSingular(M13(m))
    THEN <<Atan2(-M23(m), M33(m)),
           Asin(Clamp(M13(m), -Unit, Unit)),
           Atan2(-M12(m), M11(m))>>
    ELSE <<Atan2(M32(m), M22(m)),
           Asin(Clamp(M13(m), -Unit, Unit)),
           Lit(0)>>

\* line 112: switch e.Order, with XYZ falling through to default
Decompose(order, m) ==
    CASE order = EulerOrderYXZ -> DecomposeYXZ(m)
      [] order = EulerOrderZXY -> DecomposeZXY(m)
      [] order = EulerOrderZYX -> DecomposeZYX(m)
      [] order = EulerOrderYZX -> DecomposeYZX(m)
      [] order = EulerOrderXZY -> DecomposeXZY(m)
      [] OTHER -> DecomposeXYZ(m)

----------------------------------------------------------------------------
(* Set, lines 75-82, in its three steps *)

\* a bug: the order stored as given
ClampOrderOff(order) == order

\* a bug: wraparound in place of saturation
ClampOrderWrap(order) == order % numEulerOrders

\* line 76: order = int(Clamp(float64(order), 0, numEulerOrders-1)); the two
\* conversions are exact on the integers of the model (below 2^53)
ClampOrder(order) == Clamp(order, 0, numEulerOrders - 1)

\* line 77: e.X, e.Y, e.Z, e.Order = x, y, z, order
Assign(c, x, y, z, order) ==
    [c EXCEPT !.X = x, !.Y = y, !.Z = z, !.Order = order]

\* line 79: e.OnChangeCallback(e): what the callback is handed
Observed(before, after) == Fields(after)

\* a panic ends the program
Running == status = "ok" /\ ops < MaxOps

\* Set on container i. op and arg record the call for the properties below.
\* Calling a nil OnChangeCallback panics, after the fields were assigned.
SetStep(op, arg, i, x, y, z, order) ==
    LET after == Assign(e[i], x, y, z, ClampOrder(order))
    IN  /\ Running
        /\ e' = [e EXCEPT ![i] = after]
        /\ last' = [op |-> op, tgt |-> i, arg |-> arg, pre |-> e,
                    preNotified |-> notified]
        /\ ops' = ops + 1
        /\ IF e[i].OnChangeCallback = NilFunc
           THEN /\ status' = "panic"
                /\ UNCHANGED <<notified, seen>>
           ELSE /\ status' = "ok"
                /\ notified' = [notified EXCEPT ![i] = @ + 1]
                /\ seen' = [seen EXCEPT ![i] = Observed(e[i], after)]

----------------------------------------------------------------------------
(* The operations *)

NoMatrix == <<>>
NoAngles == <<>>

Arg(v, order, other, m, built) ==
    [v |-> v, order |-> order, other |-> other, m |-> m, built |-> built]

Set(i, x, y, z, order) ==
    SetStep("Set", Arg(<<x, y, z>>, order, i, NoMatrix, NoAngles),
            i, x, y, z, order)

SetX(i, v) ==
    SetStep("SetX", Arg(<<v>>, 0, i, NoMatrix, NoAngles),
            i, v, e[i].Y, e[i].Z, e[i].Order)

SetY(i, v) ==
    SetStep("SetY", Arg(<<v>>, 0, i, NoMatrix, NoAngles),
            i, e[i].X, v, e[i].Z, e[i].Order)

SetZ(i, v) ==
    SetStep("SetZ", Arg(<<v>>, 0, i, NoMatrix, NoAngles),
            i, e[i].X, e[i].Y, v, e[i].Order)

SetOrder(i, v) ==
    SetStep("SetOrder", Arg(<<>>, v, i, NoMatrix, NoAngles),
            i, e[i].X, e[i].Y, e[i].Z, v)

Copy(i, other) ==
    SetStep("Copy", Arg(<<>>, 0, other, NoMatrix, NoAngles),
            i, e[other].X, e[other].Y, e[other].Z, e[other].Order)

\* a bug: the switch on the order argument
SwitchOnArgument(c, order) == order

\* line 112: the value the switch of SetFromRotationMatrix is on
SwitchOrder(c, order) == c.Order

\* lines 99-172; built names the angles m was built from, if it was
FromRotationMatrix(op, i, m, order, built) ==
    LET xyz == Decompose(SwitchOrder(e[i], order), m)
    IN  SetStep(op, Arg(<<>>, order, i, m, built),
                i, xyz[1], xyz[2], xyz[3], order)

SetFromRotationMatrix(i, m, order) ==
    FromRotationMatrix("SetFromRotationMatrix", i, m, order, NoAngles)

----------------------------------------------------------------------------
(* Rotation matrices, the inputs of SetFromRotationMatrix.                  *)
(* The rotation of angles (x, y, z) under an order is the product of the   *)
(* three elemental rotations in the sequence of the order's letters; on    *)
(* the grid angles its entries are exact rationals.                        *)

\* sine and cosine of the grid angle k, in fifths
SinTab == <<0, 3, 4, 5, 4, 3, 0, -3, -4, -5, -4, -3>>
CosTab == <<5, 4, 3, 0, -3, -4, -5, -4, -3, 0, 3, 4>>

Sin5(k) == SinTab[(k % 12) + 1]
Cos5(k) == CosTab[(k % 12) + 1]

\* the elemental rotations about X, Y and Z, entries in fifths
RotX(k) == << <<5, 0, 0>>,
              <<0, Cos5(k), -Sin5(k)>>,
              <<0, Sin5(k), Cos5(k)>> >>

RotY(k) == << <<Cos5(k), 0, Sin5(k)>>,
              <<0, 5, 0>>,
              <<-Sin5(k), 0, Cos5(k)>> >>

RotZ(k) == << <<Cos5(k), -Sin5(k), 0>>,
              <<Sin5(k), Cos5(k), 0>>,
              <<0, 0, 5>> >>

Mul3(A, B) ==
    [r \in 1..3 |-> [c \in 1..3 |->
        A[r][1] * B[1][c] + A[r][2] * B[2][c] + A[r][3] * B[3][c]]]

\* the rotation of angles kx, ky, kz applied in the given order
Rotation3(kx, ky, kz, order) ==
    CASE order = EulerOrderXYZ -> Mul3(RotX(kx), Mul3(RotY(ky), RotZ(kz)))
      [] order = EulerOrderYXZ -> Mul3(RotY(ky), Mul3(RotX(kx), RotZ(kz)))
      [] order = EulerOrderZXY -> Mul3(RotZ(kz), Mul3(RotX(kx), RotY(ky)))
      [] order = EulerOrderZYX -> Mul3(RotZ(kz), Mul3(RotY(ky), RotX(kx)))
      [] order = EulerOrderYZX -> Mul3(RotY(ky), Mul3(RotZ(kz), RotX(kx)))
      [] order = EulerOrderXZY -> Mul3(RotX(kx), Mul3(RotZ(kz), RotY(ky)))

\* Matrix4.Values of a 3x3 block R (entries in 125ths): entry (row, col)
\* is stored at index (row-1) + 4*(col-1), the rest is the identity's
Matrix4Of(R) ==
    [n \in 0..15 |->
        IF n % 4 < 3 /\ n \div 4 < 3
        THEN R[(n % 4) + 1][(n \div 4) + 1] * EpsilonDen
        ELSE IF n = 15 THEN Unit ELSE 0]

EulerMatrix(kx, ky, kz, order) == Matrix4Of(Rotation3(kx, ky, kz, order))

\* Matrix4.FromQuaternion for a unit quaternion <<x, y, z, w>> given in
\* halves: the rotation matrix of the quaternion
FromQuaternion(q) ==
    LET x == q[1]
        y == q[2]
        z == q[3]
        w == q[4]
        H == Unit \div 2
        R == << <<Unit - H * (y*y + z*z), H * (x*y - z*w), H * (x*z + y*w)>>,
                <<H * (x*y + z*w), Unit - H * (x*x + z*z), H * (y*z - x*w)>>,
                <<H * (x*z - y*w), H * (y*z + x*w), Unit - H * (x*x + y*y)>> >>
    IN  [n \in 0..15 |->
            IF n % 4 < 3 /\ n \div 4 < 3
            THEN R[(n % 4) + 1][(n \div 4) + 1]
            ELSE IF n = 15 THEN Unit ELSE 0]

\* lines 90-96
SetFromQuaternion(i, q, order) ==
    FromRotationMatrix("SetFromQuaternion", i, FromQuaternion(q), order,
                       NoAngles)

----------------------------------------------------------------------------
(* The containers of a behaviour, and the inputs of the operations *)

NoFields == <<>>

\* order arguments: the six orders and integers on both sides of them
OrderArgs == -3 .. 8

InitOrders == {-1, 0, 3, 99}

InitAngles == {<<Lit(1), Lit(2), Lit(4)>>}

Constructed ==
    {NewEuler(t[1], t[2], t[3], o) : t \in InitAngles, o \in InitOrders}
        \cup {ZeroEuler}

SetAngles == {<<Lit(1), Lit(2), Lit(4)>>, <<Lit(-1), Lit(0), Lit(5)>>}

SetOrders == {-2, 4, 7}

SetterAngles == {Lit(3), Lit(-2)}

IdentityMatrix == EulerMatrix(0, 0, 0, EulerOrderXYZ)

\* a quarter turn about X
QuarterTurnX == EulerMatrix(3, 0, 0, EulerOrderXYZ)

SomeMatrices ==
    {IdentityMatrix, QuarterTurnX, EulerMatrix(1, 3, 2, EulerOrderXYZ),
     EulerMatrix(1, -2, 4, EulerOrderZXY)}

MatrixOrders == {-1, 2, 5}

\* the identity, and a third of a turn about the diagonal
SomeQuaternions == {<<0, 0, 0, 2>>, <<1, 1, 1, 1>>}

QuaternionOrders == {1, 9}

Init ==
    /\ e \in [Ids -> Constructed]
    /\ notified = [i \in Ids |-> 0]
    /\ seen = [i \in Ids |-> NoFields]
    /\ last = [op |-> "new", tgt |-> 1,
               arg |-> Arg(<<>>, 0, 1, NoMatrix, NoAngles),
               pre |-> e, preNotified |-> notified]
    /\ status = "ok"
    /\ ops = 0

Next ==
    \/ \E i \in Ids, t \in SetAngles, o \in SetOrders :
         Set(i, t[1], t[2], t[3], o)
    \/ \E i \in Ids, v \in SetterAngles : SetX(i, v)
    \/ \E i \in Ids, v \in SetterAngles : SetY(i, v)
    \/ \E i \in Ids, v \in SetterAngles : SetZ(i, v)
    \/ \E i \in Ids, o \in OrderArgs : SetOrder(i, o)
    \/ \E i \in Ids, other \in Ids : Copy(i, other)
    \/ \E i \in Ids, m \in SomeMatrices, o \in MatrixOrders :
         SetFromRotationMatrix(i, m, o)
    \/ \E i \in Ids, q \in SomeQuaternions, o \in QuaternionOrders :
         SetFromQuaternion(i, q, o)

Spec == Init /\ [][Next]_vars

----------------------------------------------------------------------------
(* The decomposition alone: one container, one SetFromRotationMatrix.      *)
(* The matrices are the rotations of grid angles, and those rotations with *)
(* one entry replaced by a value at or next to the singular threshold.     *)

\* a container of every order argument, and a zero value
MatrixConstructed ==
    {NewEuler(Lit(0), Lit(0), Lit(0), o) : o \in -1 .. numEulerOrders}
        \cup {ZeroEuler}

MatrixInit ==
    /\ e \in [Ids -> MatrixConstructed]
    /\ e[2] = NewEuler(Lit(0), Lit(0), Lit(0), EulerOrderDefault)
    /\ notified = [i \in Ids |-> 0]
    /\ seen = [i \in Ids |-> NoFields]
    /\ last = [op |-> "new", tgt |-> 1,
               arg |-> Arg(<<>>, 0, 1, NoMatrix, NoAngles),
               pre |-> e, preNotified |-> notified]
    /\ status = "ok"
    /\ ops = 0

GridAngles == -MaxAngle .. MaxAngle

Orders == 0 .. numEulerOrders - 1

\* the rotation of the grid angles kx, ky, kz in order o, decomposed with o
\* as the order argument
DecomposeRotation(kx, ky, kz, o) ==
    FromRotationMatrix("SetFromRotationMatrix", 1,
                       EulerMatrix(kx, ky, kz, o), o, <<kx, ky, kz, o>>)

\* the angles of the rotations that are probed
ProbeAngles == {0, 1, 3}

\* the entries that drive an asin: m21, m31, m12, m32, m13, m23
ProbeEntries == {1, 2, 4, 6, 8, 9}

ProbeValues ==
    {epsilon - 1, epsilon, Unit + 1, 1 - epsilon, -epsilon, -Unit - 1}

\* a rotation with entry n replaced by v, decomposed with the order
\* argument o
DecomposeProbe(kx, ky, kz, bo, n, v, o) ==
    SetFromRotationMatrix(
        1, [EulerMatrix(kx, ky, kz, bo) EXCEPT ![n] = v], o)

\* one decomposition in a behaviour: its result is a function of the
\* container and the matrix alone
MatrixNext ==
    \/ /\ ops = 0
       /\ \E kx \in GridAngles, ky \in GridAngles, kz \in GridAngles,
             o \in Orders :
            DecomposeRotation(kx, ky, kz, o)
    \/ /\ ops = 0
       /\ \E kx \in ProbeAngles, ky \in ProbeAngles, kz \in ProbeAngles,
             bo \in Orders, n \in ProbeEntries, v \in ProbeValues,
             o \in {e[1].Order, EulerOrderZXY, numEulerOrders + 1} :
            DecomposeProbe(kx, ky, kz, bo, n, v, o)

SpecMatrix == MatrixInit /\ [][MatrixNext]_vars

----------------------------------------------------------------------------
(* Vocabulary of the properties *)

\* the container the last operation was applied to, now and before the call
Target == e[last.tgt]
Before == last.pre[last.tgt]

ValidOrders == {0, 1, 2, 3, 4, 5}

\* saturation to the nearest of the bounds 0 and 5
Saturated(o) == IF o < 0 THEN 0 ELSE IF o > 5 THEN 5 ELSE o

Mutators ==
    {"Set", "SetX", "SetY", "SetZ", "SetOrder", "Copy",
     "SetFromRotationMatrix", "SetFromQuaternion"}

\* the table of the decomposition, one row per order: the entry driving the
\* asin, its sign and its axis (1 = x, 2 = y, 3 = z); the two atan2 of the
\* non-singular branch and the one of the singular branch, each as
\* <<axis, sign, numerator entry, denominator entry>>; the axis forced to 0.
\* Entries are named by their index: m11 0, m12 4, m13 8, m21 1, m22 5,
\* m23 9, m31 2, m32 6, m33 10.
Table ==
    [o \in ValidOrders |->
       CASE o = 0 -> [drive |-> 8, sign |-> 1, axis |-> 2, zero |-> 3,
                      first |-> <<1, -1, 9, 10>>, second |-> <<3, -1, 4, 0>>,
                      singular |-> <<1, 1, 6, 5>>]
         [] o = 1 -> [drive |-> 9, sign |-> -1, axis |-> 1, zero |-> 3,
                      first |-> <<2, 1, 8, 10>>, second |-> <<3, 1, 1, 5>>,
                      singular |-> <<2, -1, 2, 0>>]
         [] o = 2 -> [drive |-> 6, sign |-> 1, axis |-> 1, zero |-> 2,
                      first |-> <<2, -1, 2, 10>>, second |-> <<3, -1, 4, 5>>,
                      singular |-> <<3, 1, 1, 0>>]
         [] o = 3 -> [drive |-> 2, sign |-> -1, axis |-> 2, zero |-> 1,
                      first |-> <<1, 1, 6, 10>>, second |-> <<3, 1, 1, 0>>,
                      singular |-> <<3, -1, 4, 5>>]
         [] o = 4 -> [drive |-> 1, sign |-> 1, axis |-> 3, zero |-> 1,
                      first |-> <<1, -1, 9, 5>>, second |-> <<2, -1, 2, 0>>,
                      singular |-> <<2, 1, 8, 10>>]
         [] o = 5 -> [drive |-> 4, sign |-> -1, axis |-> 3, zero |-> 2,
                      first |-> <<1, 1, 6, 5>>, second |-> <<2, 1, 8, 0>>,
                      singular |-> <<1, -1, 9, 10>>]]

\* the atan2 a table cell names, on the matrix m
Cell(c, m) == <<"atan2", c[2] * m[c[3]], m[c[4]]>>

\* a matrix entry at or over the threshold 0.99999 in absolute value
AtThreshold(v) == v >= epsilon \/ -v >= epsilon

\* the row of the table for a stored order: an order that is none of the
\* six is decomposed as XYZ
Row(o) == Table[IF o \in ValidOrders THEN o ELSE 0]

\* the angles the table gives for the matrix m under the row r
TableAngles(r, m) ==
    LET v == m[r.drive]
        a == <<"asin", r.sign * (IF v > Unit THEN Unit
                                 ELSE IF v < -Unit THEN -Unit ELSE v)>>
    IN  [ax \in 1..3 |->
           IF ax = r.axis THEN a
           ELSE IF AtThreshold(v)
                THEN IF ax = r.zero THEN <<"lit", 0>> ELSE Cell(r.singular, m)
                ELSE IF ax = r.first[1] THEN Cell(r.first, m)
                     ELSE Cell(r.second, m)]

Stored == <<Target.X, Target.Y, Target.Z>>

\* the grid angles a float term stands for: asin gives the angle of that
\* sine in [-pi/2, pi/2], atan2 the angle of the direction (b, a) in
\* (-pi, pi], and atan2(0, 0) is 0
AnglesOf(t) ==
    CASE t[1] = "lit" -> {t[2]}
      [] t[1] = "asin" ->
           {k \in -3 .. 3 : Sin5(k) * (Unit \div 5) = t[2]}
      [] t[1] = "atan2" ->
           IF t[2] = 0 /\ t[3] = 0 THEN {0}
           ELSE {k \in -5 .. 6 :
                   /\ t[2] * Cos5(k) = t[3] * Sin5(k)
                   /\ t[2] * Sin5(k) + t[3] * Cos5(k) > 0}

\* the stored angles are the angles kx, ky, kz
Reproduces(kx, ky, kz) ==
    /\ AnglesOf(Target.X) = {kx}
    /\ AnglesOf(Target.Y) = {ky}
    /\ AnglesOf(Target.Z) = {kz}

\* the axis of the asin of an order: its middle letter
PrimaryAxis(o) == Table[o].axis

----------------------------------------------------------------------------
(* The properties *)

\* C1: at the end of every mutating operation, whatever its order argument,
\* the Order of the container it was applied to is one of 0..5.
C1_OrderValidAfterMutation ==
    last.op \in Mutators => Target.Order \in ValidOrders

\* C1, its case: a second operation in a row, with an order argument far
\* out of range, has left a valid Order on a container built with an
\* invalid one.
C1_Witness ==
    /\ ops >= 2
    /\ last.op = "SetFromQuaternion"
    /\ last.arg.order = 9
    /\ Before.Order \notin ValidOrders
    /\ Target.Order = 5

\* C2: the Order of every container is in 0..5 in every reachable state,
\* the state right after construction included.
C2_OrderValidAlways == \A i \in Ids : e[i].Order \in ValidOrders

\* C3, as stated: every call of Set, SetX, SetY, SetZ, SetOrder or Copy has
\* invoked the observer of its container exactly once, and the observer saw
\* the fields as they are after the call.
C3_ObserverOncePerCall ==
    last.op \in {"Set", "SetX", "SetY", "SetZ", "SetOrder", "Copy"} =>
        /\ notified[last.tgt] = last.preNotified[last.tgt] + 1
        /\ seen[last.tgt] = Fields(Target)

\* C3 on a container that has a callback: the callback ran exactly once,
\* saw the fields as they are after the call (for Set: the arguments), and
\* no other container's callback ran; also when nothing changed.
C3_WithCallback ==
    (/\ last.op \in {"Set", "SetX", "SetY", "SetZ", "SetOrder", "Copy"}
     /\ Before.OnChangeCallback # NilFunc) =>
        /\ notified[last.tgt] = last.preNotified[last.tgt] + 1
        /\ seen[last.tgt] = Fields(Target)
        /\ last.op = "Set" => Stored = last.arg.v
        /\ \A j \in Ids \ {last.tgt} : notified[j] = last.preNotified[j]

C5_SettersChangeOwnFieldOnly ==
    /\ last.op = "SetX" =>
         <<Target.Y, Target.Z, Target.Order>>
           = <<Before.Y, Before.Z, Before.Order>>
    /\ last.op = "SetY" =>
         <<Target.X, Target.Z, Target.Order>>
           = <<Before.X, Before.Z, Before.Order>>
    /\ last.op = "SetZ" =>
         <<Target.X, Target.Y, Target.Order>>
           = <<Before.X, Before.Y, Before.Order>>
    /\ last.op = "SetOrder" => Stored = <<Before.X, Before.Y, Before.Z>>

\* C5 on a container whose Order was one of the six before the call.
C5_FromValidOrder ==
    Before.Order \in ValidOrders => C5_SettersChangeOwnFieldOnly

\* C6: SetOrder(o) leaves Order = o when 0 <= o <= 5, 0 when o < 0 and 5
\* when o > 5.
C6_SetOrderSaturates ==
    last.op = "SetOrder" =>
        /\ (0 <= last.arg.order /\ last.arg.order <= 5)
             => Target.Order = last.arg.order
        /\ last.arg.order < 0 => Target.Order = 0
        /\ last.arg.order > 5 => Target.Order = 5

\* C6, its case: SetOrder(8), which a wraparound would take to 2, left 5.
C6_Witness ==
    /\ last.op = "SetOrder"
    /\ last.arg.order = 8
    /\ Target.Order = 5

\* C7: a container whose Order is one of the six, decomposing with that
\* order: when the driving entry is >= 0.99999 in absolute value the
\* designated secondary angle is exactly 0 and the other one the atan2 of
\* the singular column; when it is not, both are the atan2 of the
\* non-singular column.
C7_SingularBranch ==
    (/\ last.op = "SetFromRotationMatrix"
     /\ Before.Order \in ValidOrders
     /\ last.arg.order = Before.Order) =>
        LET r == Table[Before.Order]
            m == last.arg.m
        IN  IF AtThreshold(m[r.drive])
            THEN /\ Stored[r.zero] = <<"lit", 0>>
                 /\ Stored[r.singular[1]] = Cell(r.singular, m)
            ELSE /\ Stored[r.first[1]] = Cell(r.first, m)
                 /\ Stored[r.second[1]] = Cell(r.second, m)

\* C7, its case: the driving entry is exactly the threshold and the
\* designated angle is 0.
C7_Witness ==
    /\ last.op = "SetFromRotationMatrix"
    /\ Before.Order \in ValidOrders \ {0}
    /\ last.arg.order = Before.Order
    /\ last.arg.m[Table[Before.Order].drive] = -epsilon
    /\ Stored[Table[Before.Order].zero] = <<"lit", 0>>

C9_NoOperationFails == status = "ok"

\* C10, as stated: after e.Copy(other), e holds other's angles and other's
\* Order saturated to 0..5, e's observer has been invoked exactly once, and
\* a different other is unchanged and its observer was not invoked.
C10_CopyIsSet ==
    last.op = "Copy" =>
        LET o == last.arg.other
        IN  /\ Stored = XYZ(last.pre[o])
            /\ Target.Order = Saturated(last.pre[o].Order)
            /\ notified[last.tgt] = last.preNotified[last.tgt] + 1
            /\ o # last.tgt =>
                 /\ e[o] = last.pre[o]
                 /\ notified[o] = last.preNotified[o]

\* C10 on a container that has a callback.
C10_WithCallback ==
    Before.OnChangeCallback # NilFunc => C10_CopyIsSet

====
